---- MODULE Spec2Model ----
(***************************************************************************)
(* Lifecycle model of io::humble::video::SourceImpl (SourceImpl.cpp).      *)
(*                                                                         *)
(* One SourceImpl object is modelled together with the part of the native  *)
(* library it drives: the AVFormatContext it owns (allocated or null, its  *)
(* pb, its stream slots, whether the native input is open) and the custom  *)
(* I/O handler URLProtocolManager::findHandler may hand out.  Every public *)
(* method is one action; the results of native calls are inputs.           *)
(*                                                                         *)
(* VS_CHECK_INTERRUPT is modelled for a thread that is not interrupted.    *)
(***************************************************************************)
EXTENDS Integers, Sequences, FiniteSets, TLC

\* ---------------------------------------------------------------- bounds
MaxStreams == 2          \* native streams the library may report
MaxEagain == 3           \* EAGAIN results in a row the native read may give

\* ------------------------------------------------------ program constants
InitBufLen == 2048       \* mInputBufferLength after construction
InitRetry == 1           \* mReadRetryMax after construction
EAGAIN == -11            \* AVERROR(EAGAIN)

States == {"INITED", "OPENED", "PLAYING", "PAUSED", "CLOSED", "ERROR"}
OpenStates == {"OPENED", "PLAYING", "PAUSED"}

\* values a native call or a handler callback may return
Rets == {-1, 0, 1}
\* "" stands for a null or empty url; "custom:a" has a registered handler
Urls == {"", "file:a", "custom:a"}
\* sizes a caller passes to setInputBufferLength
Sizes == {-1, 0, 4096}
\* counts a caller passes to setReadRetryCount
Counts == {-1, 0}

VARIABLES
  mState, mNumStreams, mStreamInfoGotten, mReadRetryMax, mInputBufferLength,
  mIOHandler, mCtx, mFormat, mMetaData, mStreams,
  iformat, pb, nb_streams, inputOpen,
  hAlive, hOpen, hCloses,
  calls, last, obj

vars == <<mState, mNumStreams, mStreamInfoGotten, mReadRetryMax,
          mInputBufferLength, mIOHandler, mCtx, mFormat, mMetaData, mStreams,
          iformat, pb, nb_streams, inputOpen,
          hAlive, hOpen, hCloses, calls, last, obj>>

\* everything but the record of the last call
core == <<mState, mNumStreams, mStreamInfoGotten, mReadRetryMax,
          mInputBufferLength, mIOHandler, mCtx, mFormat, mMetaData, mStreams,
          iformat, pb, nb_streams, inputOpen, hAlive, hOpen, hCloses>>

\* The object and its native surroundings as one record, so that a method
\* is a function from the state before to the state after.
Self ==
  [mState |-> mState, mNumStreams |-> mNumStreams,
   mStreamInfoGotten |-> mStreamInfoGotten, mReadRetryMax |-> mReadRetryMax,
   mInputBufferLength |-> mInputBufferLength, mIOHandler |-> mIOHandler,
   mCtx |-> mCtx, mFormat |-> mFormat, mMetaData |-> mMetaData,
   mStreams |-> mStreams, iformat |-> iformat, pb |-> pb,
   nb_streams |-> nb_streams, inputOpen |-> inputOpen,
   hAlive |-> hAlive, hOpen |-> hOpen, hCloses |-> hCloses,
   calls |-> <<>>, obj |-> obj]

\* an external call (or a dereference of the context pointer) made by the
\* running method, in order
Call(s, f, a) == [s EXCEPT !.calls = Append(@, [f |-> f, a |-> a])]

Ret(s, r) == [s |-> s, ret |-> r, raised |-> FALSE]
Throw(s) == [s |-> s, ret |-> 0, raised |-> TRUE]

\* SourceImpl::SourceImpl
Constructed ==
  [mState |-> "INITED", mNumStreams |-> 0, mStreamInfoGotten |-> FALSE,
   mReadRetryMax |-> InitRetry, mInputBufferLength |-> InitBufLen,
   mIOHandler |-> 0, mCtx |-> 1, mFormat |-> 0, mMetaData |-> 0,
   mStreams |-> <<>>, iformat |-> 0, pb |-> 0,
   nb_streams |-> 0, inputOpen |-> FALSE,
   hAlive |-> FALSE, hOpen |-> FALSE, hCloses |-> 0,
   calls |-> <<>>, obj |-> "live"]

\* getFormatCtx that forgets the ERROR state
getFormatCtxThrows_closedOnly(s) == s.mState = "CLOSED"

\* SourceImpl::getFormatCtx: throws in CLOSED or ERROR, else hands out mCtx
getFormatCtxThrows(s) == s.mState \in {"CLOSED", "ERROR"}

\* a read or write through the pointer getFormatCtx returned; a = 0 is a
\* dereference of a null context
Deref(s) == Call(s, "ctx", s.mCtx)

\* URLProtocolManager::findHandler, as open() uses it
findHandler(url) == url = "custom:a"

\* the native library reporting g further streams in ctx->streams
Grows(n) == 0..(MaxStreams - n)
NativeGrow(s, g) == [s EXCEPT !.nb_streams = @ + g]

\* Whether native stream i yields a wrapper when doSetupSourceStreams comes
\* to it: ctx->streams[i] is non-null and SourceStreamImpl::make returned an
\* object.  An input of each call, for the streams the call has to visit.
AllMade == [i \in 0..(MaxStreams - 1) |-> TRUE]
Makes(from, to) ==
  {[i \in 0..(MaxStreams - 1) |-> IF i \in bad THEN FALSE ELSE TRUE]
     : bad \in SUBSET (from..(to - 1))}

\* SourceImpl::doSetupSourceStreams, the loop over new streams
RECURSIVE SetupLoop(_, _, _)
SetupLoop(s, i, mk) ==
  IF i >= s.nb_streams THEN s
  ELSE IF mk[i]
       THEN SetupLoop([s EXCEPT
                         !.mStreams = Append(@, [id |-> Len(@) + 1, index |-> i]),
                         !.mNumStreams = @ + 1], i + 1, mk)
       ELSE SetupLoop(s, i + 1, mk)

\* SourceImpl::doSetupSourceStreams
doSetupSourceStreams(s, mk) ==
  IF s.mNumStreams = s.nb_streams THEN s
  ELSE SetupLoop(s, s.mNumStreams, mk)

\* SourceImpl::doCloseFileHandles
doCloseFileHandles(s, rClose) ==
  IF s.mIOHandler # 0
  THEN LET s1 == Call(s, "url_close", rClose)
           s2 == Call(s1, "delete_handler", 0)
       IN Ret([s2 EXCEPT !.hOpen = FALSE, !.hCloses = @ + 1, !.pb = 0,
                         !.hAlive = FALSE, !.mIOHandler = 0], rClose)
  ELSE Ret(s, 0)

\* SourceImpl::doOpen
doOpen(s, rUrlOpen, rOpenInput, rClose, grow) ==
  LET s1 == IF s.mIOHandler # 0
            THEN [Call(s, "url_open", rUrlOpen) EXCEPT !.hOpen = rUrlOpen >= 0]
            ELSE s
      retval == IF s.mIOHandler # 0 THEN rUrlOpen ELSE 0
  IN IF retval >= 0
     THEN LET s2 == Call(s1, "avformat_open_input", rOpenInput)
          IN IF rOpenInput < 0
             \* the library frees a context it failed to open
             THEN Ret(doCloseFileHandles([s2 EXCEPT !.mCtx = 0], rClose).s,
                      rOpenInput)
             ELSE Ret(NativeGrow([s2 EXCEPT !.inputOpen = TRUE,
                                            !.iformat = IF @ = 0 THEN 2 ELSE @],
                                 grow), rOpenInput)
     ELSE Ret(s1, retval)

\* queryStreamMetaData that remembers a probe whatever it returned
queryStreamMetaData_anyProbe(s, rInfo, grow, mk) ==
  IF s.mState \notin OpenStates THEN Throw(s)
  ELSE LET probe == ~s.mStreamInfoGotten
           s1 == IF probe
                 THEN NativeGrow(Call(Deref(s), "avformat_find_stream_info", rInfo),
                                 grow)
                 ELSE s
           retval == IF probe THEN rInfo ELSE 0
           s2 == IF probe
                 THEN [s1 EXCEPT !.mStreamInfoGotten = TRUE] ELSE s1
       IN IF retval >= 0 /\ s2.nb_streams > 0
          THEN Ret(doSetupSourceStreams(s2, mk), retval)
          ELSE Ret(s2, retval)

\* SourceImpl::queryStreamMetaData
queryStreamMetaData(s, rInfo, grow, mk) ==
  IF s.mState \notin OpenStates THEN Throw(s)
  ELSE LET probe == ~s.mStreamInfoGotten
           s1 == IF probe
                 THEN NativeGrow(Call(Deref(s), "avformat_find_stream_info", rInfo),
                                 grow)
                 ELSE s
           retval == IF probe THEN rInfo ELSE 0
           s2 == IF probe /\ retval >= 0
                 THEN [s1 EXCEPT !.mStreamInfoGotten = TRUE] ELSE s1
       IN IF retval >= 0 /\ s2.nb_streams > 0
          THEN Ret(doSetupSourceStreams(s2, mk), retval)
          ELSE Ret(s2, retval)

\* what the native side does during one open(): the allocations, the
\* handler's url_open and url_close, avformat_open_input and the probe
NoEnv ==
  [alloc |-> "ok", rUrlOpen |-> 0, rOpenInput |-> 0, rClose |-> 0,
   rInfo |-> 0, grow |-> 0, mk |-> AllMade]
OpenEnvs ==
  {[alloc |-> a, rUrlOpen |-> -1, rOpenInput |-> -1, rClose |-> 0,
    rInfo |-> 0, grow |-> 0, mk |-> AllMade]
     : a \in {"ok", "nobuf", "nopb"}}
  \cup
  {[alloc |-> "ok", rUrlOpen |-> u, rOpenInput |-> -1, rClose |-> c,
    rInfo |-> 0, grow |-> 0, mk |-> AllMade]
     : u \in {0, 1}, c \in Rets}
  \cup
  {[alloc |-> "ok", rUrlOpen |-> u, rOpenInput |-> 0, rClose |-> 0,
    rInfo |-> r, grow |-> g, mk |-> m]
     : u \in {0, 1}, r \in Rets, g \in Grows(0), m \in Makes(0, MaxStreams)}

\* openNative without the last test of open(): a negative result no longer
\* puts the source into ERROR
openNative_noError(s3, oldFormat, queryMetaData, env) ==
  LET d == doOpen(s3, env.rUrlOpen, env.rOpenInput, env.rClose, env.grow)
      s4 == IF d.ret >= 0
            THEN [d.s EXCEPT !.mState = "OPENED",
                             !.mFormat = IF oldFormat # d.s.iformat
                                         THEN 2 ELSE @]
            ELSE d.s
  IN IF d.ret >= 0 /\ queryMetaData
     THEN queryStreamMetaData(s4, env.rInfo, 0, env.mk)
     ELSE Ret(s4, d.ret)

\* SourceImpl::open, lines 145-177: the native open, then the state
openNative(s3, oldFormat, queryMetaData, env) ==
  LET d == doOpen(s3, env.rUrlOpen, env.rOpenInput, env.rClose, env.grow)
      s4 == IF d.ret >= 0
            THEN [d.s EXCEPT !.mState = "OPENED",
                             !.mFormat = IF oldFormat # d.s.iformat
                                         THEN 2 ELSE @]
            ELSE d.s
      q == IF d.ret >= 0 /\ queryMetaData
           THEN queryStreamMetaData(s4, env.rInfo, 0, env.mk)
           ELSE Ret(s4, d.ret)
  IN IF q.ret < 0
     THEN Ret([q.s EXCEPT !.mState = "ERROR"], q.ret)
     ELSE Ret(q.s, q.ret)

\* SourceImpl::open, lines 104-144: the format and the custom I/O set-up
openIO(s0, url, format, queryMetaData, env) ==
  LET s1 == IF format THEN Deref([s0 EXCEPT !.mFormat = 1, !.iformat = 1])
            ELSE s0
      oldFormat == s1.iformat
      found == findHandler(url)
      s2 == [Call(s1, "findHandler", IF found THEN 1 ELSE 0) EXCEPT
               !.mIOHandler = IF found THEN 1 ELSE 0, !.hAlive = found]
  IN IF found /\ env.alloc = "nobuf"
     THEN Ret([s2 EXCEPT !.mState = "ERROR"], -1)
     ELSE IF found /\ env.alloc = "nopb"
     THEN Ret([s2 EXCEPT !.mState = "ERROR"], -1)
     ELSE openNative(IF found THEN [s2 EXCEPT !.pb = 1] ELSE s2,
                     oldFormat, queryMetaData, env)

\* open without the test for a null or empty url
open_noUrlCheck(s0, url, format, queryMetaData, env) ==
  IF getFormatCtxThrows(s0) THEN Throw(s0)
  ELSE IF s0.mState # "INITED" THEN Ret(s0, -1)
  ELSE openIO(s0, url, format, queryMetaData, env)

\* SourceImpl::open
open(s0, url, format, queryMetaData, env) ==
  IF getFormatCtxThrows(s0) THEN Throw(s0)
  ELSE IF s0.mState # "INITED" THEN Ret(s0, -1)
  ELSE IF url = "" THEN Ret(s0, -1)
  ELSE openIO(s0, url, format, queryMetaData, env)

\* the loop of close() walking mStreams from the front
RECURSIVE NotifyLoop_forward(_)
NotifyLoop_forward(s) ==
  IF Len(s.mStreams) = 0 THEN s
  ELSE NotifyLoop_forward([Call(s, "containerClosed", Head(s.mStreams).id)
                             EXCEPT !.mStreams = Tail(@)])

\* SourceImpl::close, the loop that tells the streams
RECURSIVE NotifyLoop(_)
NotifyLoop(s) ==
  IF Len(s.mStreams) = 0 THEN s
  ELSE LET stream == s.mStreams[Len(s.mStreams)]
       IN NotifyLoop([Call(s, "containerClosed", stream.id) EXCEPT
                        !.mStreams = SubSeq(@, 1, Len(@) - 1)])

\* what a build may do with the null context close() reads the file name
\* from when the handler's url_close failed
NullDerefOutcomes == {"crash", "continue"}

\* SourceImpl::close
close(s, rClose, ub) ==
  IF s.mState \notin OpenStates THEN Throw(s)
  ELSE
    LET s1 == [NotifyLoop(s) EXCEPT !.mNumStreams = 0]
        s2 == Deref(s1)
        s3 == [Call(s2, "avformat_close_input", 0) EXCEPT
                 !.inputOpen = FALSE, !.mCtx = 0,
                 !.nb_streams = 0, !.iformat = 0]
        d == doCloseFileHandles(s3, rClose)
    IN IF d.ret < 0
       THEN LET s4 == Deref(d.s)   \* getURL() at line 242, mCtx is 0
            IN IF s4.mCtx = 0 /\ ub = "crash"
               THEN Ret([s4 EXCEPT !.obj = "crashed"], d.ret)
               ELSE Ret([s4 EXCEPT !.mState = "ERROR"], d.ret)
       ELSE Ret([d.s EXCEPT !.mState = IF @ # "ERROR" THEN "CLOSED" ELSE @],
                d.ret)

\* SourceImpl::~SourceImpl
destroy(s, rClose, ub) ==
  LET c == IF s.mState \in OpenStates THEN close(Deref(s), rClose, ub).s ELSE s
  IN IF c.obj = "crashed" THEN Ret(c, 0)
     ELSE Ret([(IF c.mCtx # 0 THEN Call(c, "avformat_free_context", 0) ELSE c)
                 EXCEPT !.mCtx = 0, !.obj = "destroyed"], 0)

\* setInputBufferLength without the test of the state
setInputBufferLength_anyState(s, size) ==
  IF size <= 0 THEN Throw(s)
  ELSE Ret([s EXCEPT !.mInputBufferLength = size], 0)

\* SourceImpl::setInputBufferLength
setInputBufferLength(s, size) ==
  IF size <= 0 THEN Throw(s)
  ELSE IF s.mState # "INITED" THEN Throw(s)
  ELSE Ret([s EXCEPT !.mInputBufferLength = size], 0)

\* SourceImpl::getInputBufferLength
getInputBufferLength(s) == Ret(s, s.mInputBufferLength)

\* SourceImpl::setReadRetryCount
setReadRetryCount(s, count) ==
  IF count >= 0 THEN Ret([s EXCEPT !.mReadRetryMax = count], 0) ELSE Ret(s, 0)

\* SourceImpl::getReadRetryCount
getReadRetryCount(s) == Ret(s, s.mReadRetryMax)

\* SourceImpl::getNumStreams
getNumStreams(s, mk) ==
  IF s.mState \notin OpenStates THEN Throw(s)
  ELSE LET s1 == Deref(s)
           s2 == IF s1.nb_streams # s1.mNumStreams
                 THEN doSetupSourceStreams(s1, mk) ELSE s1
       IN Ret(s2, s2.mNumStreams)

\* SourceImpl::getSourceStream; the result is the wrapper's id, 0 for none.
\* mStreams.at() throws for a position outside the vector.
getSourceStream(s, position, mk) ==
  IF s.mState \notin OpenStates THEN Throw(s)
  ELSE LET s1 == Deref(s)
           s2 == IF s1.nb_streams # s1.mNumStreams
                 THEN doSetupSourceStreams(s1, mk) ELSE s1
       IN IF position < s2.mNumStreams
          THEN IF position < 0 THEN Throw(s2)
               ELSE Ret(s2, s2.mStreams[position + 1].id)
          ELSE Ret(s2, 0)

\* the do-while of read() with one more attempt than the retry count allows
RECURSIVE ReadLoop_oneMore(_, _, _, _)
ReadLoop_oneMore(s, numReads, eag, r) ==
  LET retval == IF numReads + 1 <= eag THEN EAGAIN ELSE r
      s1 == Call(s, "av_read_frame", retval)
      n == numReads + 1
  IN IF retval = EAGAIN /\ (s.mReadRetryMax < 0 \/ n <= s.mReadRetryMax + 1)
     THEN ReadLoop_oneMore(s1, n, eag, r)
     ELSE Ret(s1, retval)

\* SourceImpl::read, the do-while around av_read_frame: the first eag
\* attempts return EAGAIN, the later ones r
RECURSIVE ReadLoop(_, _, _, _)
ReadLoop(s, numReads, eag, r) ==
  LET retval == IF numReads + 1 <= eag THEN EAGAIN ELSE r
      s1 == Call(s, "av_read_frame", retval)
      n == numReads + 1
  IN IF retval = EAGAIN /\ (s.mReadRetryMax < 0 \/ n <= s.mReadRetryMax)
     THEN ReadLoop(s1, n, eag, r)
     ELSE Ret(s1, retval)

\* SourceImpl::read
read(s, pkt, eag, r, streamIndex, grow, mk) ==
  IF ~pkt THEN Ret(s, -1)
  ELSE IF getFormatCtxThrows(s) THEN Throw(s)
  ELSE LET l == ReadLoop(s, 0, eag, r)
       IN IF l.ret >= 0 /\ streamIndex >= 0
          THEN LET g == getSourceStream(
                          IF l.s.inputOpen THEN NativeGrow(l.s, grow) ELSE l.s,
                          streamIndex, mk)
               IN IF g.raised THEN g ELSE Ret(g.s, l.ret)
          ELSE l

\* seek that only refuses a closed source
seek_notClosed(s, rSeek) ==
  IF getFormatCtxThrows(s) THEN Throw(s)
  ELSE Ret(Call(s, "avformat_seek_file", rSeek), rSeek)

\* SourceImpl::seek
seek(s, rSeek) ==
  IF s.mState # "OPENED" THEN Throw(s)
  ELSE Ret(Call(s, "avformat_seek_file", rSeek), rSeek)

\* pause that takes any open state for PLAYING
pause_anyOpen(s, rPause) ==
  IF s.mState \notin OpenStates THEN Throw(s)
  ELSE LET s1 == Call(s, "av_read_pause", rPause)
       IN Ret(IF rPause >= 0 THEN [s1 EXCEPT !.mState = "PAUSED"] ELSE s1,
              rPause)

\* SourceImpl::pause
pause(s, rPause) ==
  IF s.mState # "PLAYING" THEN Throw(s)
  ELSE LET s1 == Call(s, "av_read_pause", rPause)
       IN Ret(IF rPause >= 0 THEN [s1 EXCEPT !.mState = "PAUSED"] ELSE s1,
              rPause)

\* SourceImpl::play
play(s, rPlay) ==
  IF s.mState # "PAUSED" \/ s.mState # "OPENED" THEN Throw(s)
  ELSE LET s1 == Call(s, "av_read_play", rPlay)
       IN Ret(IF rPlay >= 0 THEN [s1 EXCEPT !.mState = "PLAYING"] ELSE s1,
              rPlay)

\* SourceImpl::getDuration, getStartTime, getFileSize, getBitRate, getFlags,
\* setFlags, getFlag, setFlag, getURL, setForcedAudioCodec,
\* setForcedVideoCodec, setForcedSubtitleCodec, getMaxDelay and
\* canStreamsBeAddedDynamically: each reads or writes one field of the
\* context getFormatCtx() returns and nothing else
ctxAccess(s) ==
  IF getFormatCtxThrows(s) THEN Throw(s) ELSE Ret(Deref(s), 0)

\* SourceImpl::getMetaData
getMetaData(s) ==
  IF s.mMetaData = 0
  THEN IF getFormatCtxThrows(s) THEN Throw(s)
       ELSE Ret(Deref([s EXCEPT !.mMetaData = 1]), 1)
  ELSE Ret(s, 1)

\* The state a method leaves, into the variables; last is the call just
\* made: the method, its url and integer argument (n: 1 for a format, a
\* packet or queryMetaData given, else the number passed), the state it was
\* made in and how it ended.
Commit(op, url, n, r) ==
  \E x \in {r} :
    /\ mState' = x.s.mState
    /\ mNumStreams' = x.s.mNumStreams
    /\ mStreamInfoGotten' = x.s.mStreamInfoGotten
    /\ mReadRetryMax' = x.s.mReadRetryMax
    /\ mInputBufferLength' = x.s.mInputBufferLength
    /\ mIOHandler' = x.s.mIOHandler
    /\ mCtx' = x.s.mCtx
    /\ mFormat' = x.s.mFormat
    /\ mMetaData' = x.s.mMetaData
    /\ mStreams' = x.s.mStreams
    /\ iformat' = x.s.iformat
    /\ pb' = x.s.pb
    /\ nb_streams' = x.s.nb_streams
    /\ inputOpen' = x.s.inputOpen
    /\ hAlive' = x.s.hAlive
    /\ hOpen' = x.s.hOpen
    /\ hCloses' = x.s.hCloses
    /\ calls' = x.s.calls
    /\ last' = [op |-> op, url |-> url, n |-> n, pre |-> mState,
                 raised |-> x.raised, ret |-> x.ret]
    /\ obj' = x.s.obj

Init ==
  /\ mState = Constructed.mState
  /\ mNumStreams = Constructed.mNumStreams
  /\ mStreamInfoGotten = Constructed.mStreamInfoGotten
  /\ mReadRetryMax = Constructed.mReadRetryMax
  /\ mInputBufferLength = Constructed.mInputBufferLength
  /\ mIOHandler = Constructed.mIOHandler
  /\ mCtx = Constructed.mCtx
  /\ mFormat = Constructed.mFormat
  /\ mMetaData = Constructed.mMetaData
  /\ mStreams = Constructed.mStreams
  /\ iformat = Constructed.iformat
  /\ pb = Constructed.pb
  /\ nb_streams = Constructed.nb_streams
  /\ inputOpen = Constructed.inputOpen
  /\ hAlive = Constructed.hAlive
  /\ hOpen = Constructed.hOpen
  /\ hCloses = Constructed.hCloses
  /\ calls = <<>>
  /\ last = [op |-> "make", url |-> "", n |-> 0, pre |-> "INITED",
             raised |-> FALSE, ret |-> 0]
  /\ obj = Constructed.obj

Open ==
  /\ obj = "live"
  /\ \E url \in Urls, format \in BOOLEAN :
       \E queryMetaData \in IF mState = "INITED" /\ url # ""
                             THEN BOOLEAN ELSE {FALSE} :
       \E env \in IF mState = "INITED" /\ url # "" THEN OpenEnvs ELSE {NoEnv} :
       Commit("open", url, IF format THEN 1 ELSE 0, open(Self, url, format, queryMetaData, env))

Close ==
  /\ obj = "live"
  /\ \E rClose \in IF mState \in OpenStates /\ mIOHandler # 0
                      THEN Rets ELSE {0} :
       \E ub \in IF rClose < 0 THEN NullDerefOutcomes ELSE {"continue"} :
       Commit("close", "", 0, close(Self, rClose, ub))

Destroy ==
  /\ obj = "live"
  /\ \E rClose \in IF mState \in OpenStates /\ mIOHandler # 0
                      THEN Rets ELSE {0} :
       \E ub \in IF rClose < 0 THEN NullDerefOutcomes ELSE {"continue"} :
       Commit("destroy", "", 0, destroy(Self, rClose, ub))

SetInputBufferLength ==
  /\ obj = "live"
  /\ \E size \in Sizes :
       Commit("setInputBufferLength", "", size,
              setInputBufferLength(Self, size))

GetInputBufferLength ==
  /\ obj = "live"
  /\ Commit("getInputBufferLength", "", 0, getInputBufferLength(Self))

SetReadRetryCount ==
  /\ obj = "live"
  /\ \E count \in Counts :
       Commit("setReadRetryCount", "", count, setReadRetryCount(Self, count))

GetReadRetryCount ==
  /\ obj = "live"
  /\ Commit("getReadRetryCount", "", 0, getReadRetryCount(Self))

GetNumStreams ==
  /\ obj = "live"
  /\ \E mk \in Makes(mNumStreams, nb_streams) :
       Commit("getNumStreams", "", 0, getNumStreams(Self, mk))

GetSourceStream ==
  /\ obj = "live"
  /\ \E position \in IF mState \in OpenStates THEN -1..MaxStreams ELSE {0} :
       \E mk \in Makes(mNumStreams, nb_streams) :
       Commit("getSourceStream", "", position,
              getSourceStream(Self, position, mk))

Read ==
  /\ obj = "live"
  /\ \E pkt \in BOOLEAN :
       \E eag \in IF pkt /\ mState \notin {"CLOSED", "ERROR"}
                   THEN 0..MaxEagain ELSE {0} :
       \E r \in IF pkt /\ mState \notin {"CLOSED", "ERROR"}
                 THEN {-1, 0} ELSE {-1} :
       \E streamIndex \in IF r >= 0 /\ eag <= mReadRetryMax
                           THEN -1..(MaxStreams - 1) ELSE {-1} :
       \E grow \in IF streamIndex >= 0 /\ inputOpen
                    THEN Grows(nb_streams) ELSE {0} :
       \E mk \in IF streamIndex >= 0
                  THEN Makes(mNumStreams, nb_streams + grow) ELSE {AllMade} :
         Commit("read", "", IF pkt THEN 1 ELSE 0,
                read(Self, pkt, eag, r, streamIndex, grow, mk))

QueryStreamMetaData ==
  /\ obj = "live"
  /\ \E rInfo \in IF mState \in OpenStates /\ ~mStreamInfoGotten
                     THEN Rets ELSE {0} :
       \E grow \in IF mState \in OpenStates /\ ~mStreamInfoGotten
                    THEN Grows(nb_streams) ELSE {0} :
       \E mk \in IF mState \in OpenStates
                  THEN Makes(mNumStreams, nb_streams + grow) ELSE {AllMade} :
       Commit("queryStreamMetaData", "", 0,
              queryStreamMetaData(Self, rInfo, grow, mk))

Seek ==
  /\ obj = "live"
  /\ \E rSeek \in Rets : Commit("seek", "", 0, seek(Self, rSeek))

Pause ==
  /\ obj = "live"
  /\ \E rPause \in Rets : Commit("pause", "", 0, pause(Self, rPause))

Play ==
  /\ obj = "live"
  /\ \E rPlay \in Rets : Commit("play", "", 0, play(Self, rPlay))

CtxAccess ==
  /\ obj = "live"
  /\ Commit("ctxAccess", "", 0, ctxAccess(Self))

GetMetaData ==
  /\ obj = "live"
  /\ Commit("getMetaData", "", 0, getMetaData(Self))

Next ==
  \/ Open
  \/ Close
  \/ Destroy
  \/ SetInputBufferLength
  \/ GetInputBufferLength
  \/ SetReadRetryCount
  \/ GetReadRetryCount
  \/ GetNumStreams
  \/ GetSourceStream
  \/ Read
  \/ QueryStreamMetaData
  \/ Seek
  \/ Pause
  \/ Play
  \/ CtxAccess
  \/ GetMetaData

Spec == Init /\ [][Next]_vars

\* ------------------------------------------------------------ properties
Called(f) == \E i \in DOMAIN calls : calls[i].f = f
CalledWith(f, a) == \E i \in DOMAIN calls : calls[i] = [f |-> f, a |-> a]
\* the calls that read or write the native context
CtxCalls == {"ctx", "avformat_open_input", "avformat_close_input",
             "avformat_find_stream_info", "av_read_frame",
             "avformat_seek_file", "av_read_pause", "av_read_play",
             "avformat_free_context"}
TouchesCtx == \E i \in DOMAIN calls : calls[i].f \in CtxCalls
\* the methods that go through getFormatCtx()
NeedCtx == {"open", "read", "ctxAccess", "getMetaData"}

\* C1: play() in OPENED or PAUSED does not raise, calls the native play and
\* makes the state PLAYING when that returns >= 0; in every other state it
\* raises and leaves the state alone.
C1_PlayContract ==
  last.op = "play" =>
    IF last.pre \in {"OPENED", "PAUSED"}
    THEN /\ ~last.raised
         /\ CalledWith("av_read_play", last.ret)
         /\ (last.ret >= 0 => mState = "PLAYING")
    ELSE last.raised /\ mState = last.pre

\* C2: an open() made in INITED with a non-empty url that returns leaves the
\* state OPENED exactly when its result is >= 0 and ERROR when it is
\* negative; never INITED.
C2_OpenOutcome ==
  (last.op = "open" /\ last.pre = "INITED" /\ last.url # "" /\ ~last.raised)
    => /\ (mState = "OPENED" <=> last.ret >= 0)
       /\ (last.ret < 0 => mState = "ERROR")
       /\ mState # "INITED"

C2_Witness ==
  /\ last.op = "open" /\ last.pre = "INITED" /\ last.url = "custom:a"
  /\ CalledWith("avformat_open_input", 0)
  /\ CalledWith("avformat_find_stream_info", -1)
  /\ last.ret = -1 /\ mState = "ERROR"

\* C3: open() in OPENED, PLAYING or PAUSED, or in INITED with a null or
\* empty url, returns -1, changes nothing of the source and makes no handler
\* lookup and no native call.
C3_OpenRejected ==
  [][(/\ last'.op = "open"
      /\ \/ mState \in OpenStates
         \/ mState = "INITED" /\ last'.url = "")
       => /\ ~last'.raised /\ last'.ret = -1
          /\ UNCHANGED core
          /\ calls' = <<>>]_vars

C3_Witness ==
  /\ last.op = "open" /\ last.pre = "OPENED" /\ last.url = "custom:a"
  /\ last.n = 1 /\ last.ret = -1 /\ mState = "OPENED" /\ mFormat = 2
  /\ mIOHandler = 0

\* C4: close() outside OPENED, PLAYING and PAUSED raises and leaves the
\* state alone; an accepted close() returns 0 or the handler's url_close
\* result and leaves CLOSED when that is >= 0, ERROR when it is negative.
C4_CloseContract ==
  last.op = "close" =>
    IF last.pre \in OpenStates
    THEN /\ obj = "live" /\ ~last.raised
         /\ (Called("url_close") \/ last.ret = 0)
         /\ (Called("url_close") => CalledWith("url_close", last.ret))
         /\ (last.ret >= 0 => mState = "CLOSED")
         /\ (last.ret < 0 => mState = "ERROR")
    ELSE last.raised /\ mState = last.pre

\* C5 as claimed: in CLOSED or ERROR no method changes the state, and each
\* method that needs the native context raises instead of touching it.
C5_TerminalRaises ==
  last.pre \in {"CLOSED", "ERROR"}
    => /\ mState = last.pre
       /\ (last.op \in NeedCtx => last.raised /\ ~TouchesCtx)

\* C5, amended: in CLOSED or ERROR no method changes the state, and no
\* method that needs the native context touches it: each raises, except
\* read() given no usable packet, which returns -1, and getMetaData() when the
\* bag was made earlier, which returns that bag.
C5_Terminal ==
  last.pre \in {"CLOSED", "ERROR"}
    => /\ mState = last.pre
       /\ (last.op \in NeedCtx =>
             /\ ~TouchesCtx
             /\ (last.op \in {"open", "ctxAccess"} => last.raised)
             /\ (last.op = "read" =>
                   IF last.n = 1 THEN last.raised
                   ELSE ~last.raised /\ last.ret = -1)
             /\ (last.op = "getMetaData" =>
                   IF last.raised THEN mMetaData = 0
                   ELSE mMetaData = 1 /\ calls = <<>>))

C5_Witness ==
  /\ last.op = "getMetaData" /\ last.pre = "ERROR" /\ last.raised
  /\ mState = "ERROR" /\ mCtx = 1 /\ inputOpen

\* C6: pause() outside PLAYING raises and leaves the state alone; in PLAYING
\* the state becomes PAUSED exactly when the native pause returns >= 0.
C6_PauseContract ==
  last.op = "pause" =>
    IF last.pre = "PLAYING"
    THEN /\ ~last.raised
         /\ CalledWith("av_read_pause", last.ret)
         /\ (mState = "PAUSED" <=> last.ret >= 0)
         /\ (last.ret < 0 => mState = "PLAYING")
    ELSE last.raised /\ mState = last.pre /\ calls = <<>>

C6_Witness ==
  /\ last.op = "pause" /\ last.pre = "OPENED" /\ last.raised
  /\ mState = "OPENED" /\ inputOpen

\* C7: seek() in OPENED calls the native seek once and returns its result;
\* in every other state it raises without a native call; the state is the
\* same after it as before, whatever the native seek returned.
C7_SeekContract ==
  last.op = "seek" =>
    /\ mState = last.pre
    /\ IF last.pre = "OPENED"
       THEN ~last.raised /\ calls = <<[f |-> "avformat_seek_file", a |-> last.ret]>>
       ELSE last.raised /\ calls = <<>>

C7_Witness ==
  /\ last.op = "seek" /\ last.pre = "OPENED" /\ last.ret = -1
  /\ mState = "OPENED"

\* C8: an accepted close() tells each stream wrapper held containerClosed
\* once, the last made first, all of them before avformat_close_input, and
\* leaves no wrapper and a stream count of 0.
C8_StreamsToldInReverse ==
  [][(last'.op = "close" /\ ~last'.raised)
       => LET k == Len(mStreams)
          IN /\ Len(calls') > k
             /\ \A i \in 1..k :
                  calls'[i] = [f |-> "containerClosed", a |-> mStreams[k + 1 - i].id]
             /\ \A i \in DOMAIN calls' :
                  /\ (calls'[i].f = "containerClosed" => i <= k)
                  /\ (calls'[i].f = "avformat_close_input" => i > k)
             /\ mStreams' = <<>>
             /\ mNumStreams' = 0]_vars

C8_Witness ==
  /\ last.op = "close" /\ ~last.raised
  /\ Len(calls) > 2
  /\ calls[1] = [f |-> "containerClosed", a |-> 2]
  /\ calls[2] = [f |-> "containerClosed", a |-> 1]
  /\ Called("avformat_close_input")
  /\ mStreams = <<>> /\ mNumStreams = 0

\* C9: setInputBufferLength(size) raises and changes nothing when size <= 0
\* or the state is not INITED, and else makes size the value
\* getInputBufferLength() returns; the length is 2048 at first, always > 0,
\* and no step changes it once the source has left INITED.
C9_InputBufferLength ==
  /\ mInputBufferLength = InitBufLen
  /\ [][/\ mInputBufferLength' > 0
        /\ (mState # "INITED" => mInputBufferLength' = mInputBufferLength)
        /\ (last'.op = "setInputBufferLength" =>
              IF last'.n <= 0 \/ mState # "INITED"
              THEN last'.raised /\ UNCHANGED core
              ELSE ~last'.raised /\ mInputBufferLength' = last'.n)
        /\ (last'.op = "getInputBufferLength" =>
              ~last'.raised /\ last'.ret = mInputBufferLength)]_vars

C9_Witness ==
  /\ last.op = "setInputBufferLength" /\ last.n = 4096 /\ last.raised
  /\ last.pre = "OPENED" /\ mInputBufferLength = 4096

\* C10: when an open() that found a custom I/O handler fails, the handler's
\* file handle is closed, the handler is deleted and mIOHandler is null by
\* the time open() returns.
C10_HandlerReleasedOnFailure ==
  (last.op = "open" /\ CalledWith("findHandler", 1) /\ ~last.raised
     /\ last.ret < 0)
    => ~hOpen /\ ~hAlive /\ mIOHandler = 0

\* C11: a source whose native input was opened is closed before it is gone:
\* when the object has been destroyed the native input is closed, the
\* handler's file handle is closed and url_close was called at most once.
C11_ClosedBeforeGone ==
  obj = "destroyed" => ~inputOpen /\ ~hOpen /\ hCloses <= 1

\* C12: close() makes no use of the native context after
\* avformat_close_input released it.
C12_NoUseAfterRelease ==
  last.op = "close" =>
    \A i, j \in DOMAIN calls :
      (calls[i].f = "avformat_close_input" /\ j > i)
        => calls[j].f \notin CtxCalls

\* C13: the read-retry count is never negative; a read() calls the native
\* read at most count + 1 times, every attempt before the last returned
\* EAGAIN, it stops early only on another result, and a read() that returns
\* returns what the last attempt returned.
IsReadFrame(c) == c.f = "av_read_frame"
ReadCalls == SelectSeq(calls, IsReadFrame)
C13_BoundedRead ==
  /\ mReadRetryMax >= 0
  /\ (last.op = "read" /\ ReadCalls # <<>>) =>
       LET n == Len(ReadCalls)
       IN /\ n <= mReadRetryMax + 1
          /\ \A i \in 1..(n - 1) : ReadCalls[i].a = EAGAIN
          /\ (n < mReadRetryMax + 1 => ReadCalls[n].a # EAGAIN)
          /\ (~last.raised => last.ret = ReadCalls[n].a)

C13_Witness ==
  /\ last.op = "read" /\ ~last.raised /\ last.ret = EAGAIN
  /\ mReadRetryMax = 1 /\ Len(ReadCalls) = 2
  /\ ReadCalls[1].a = EAGAIN /\ ReadCalls[2].a = EAGAIN

\* C14: read() calls the native read only in OPENED, PLAYING or PAUSED; in
\* INITED, CLOSED or ERROR it raises or returns a negative value without a
\* native read.
C14_ReadValidatesState ==
  (last.op = "read" /\ last.pre \notin OpenStates)
    => ~Called("av_read_frame") /\ (last.raised \/ last.ret < 0)

\* C15: in every open state the stream count is the number of wrappers
\* held and the wrapper at position i is the one of native stream i, so that
\* no native stream has two wrappers and getSourceStream(i) answers with the
\* wrapper of stream i.
C15_StreamsAligned ==
  mState \in OpenStates =>
    /\ mNumStreams = Len(mStreams)
    /\ \A p \in DOMAIN mStreams : mStreams[p].index = p - 1
    /\ (last.op = "getSourceStream" /\ ~last.raised /\ last.ret # 0
          => mStreams[last.ret].index = last.n)

\* C16: queryStreamMetaData() outside OPENED, PLAYING and PAUSED raises and
\* does nothing; accepted, it probes exactly when no probe has succeeded
\* yet, returns the probe's result then and 0 otherwise; a probe is
\* remembered exactly when it returned >= 0, and stays remembered; the call
\* leaves the lifecycle state as it was.
C16_ProbeOnce ==
  [][/\ (mStreamInfoGotten => mStreamInfoGotten')
     /\ (\A i \in DOMAIN calls' :
           (calls'[i].f = "avformat_find_stream_info" /\ calls'[i].a >= 0)
             => mStreamInfoGotten')
     /\ (last'.op = "queryStreamMetaData" =>
           /\ mState' = mState
           /\ IF mState \notin OpenStates
              THEN last'.raised /\ calls' = <<>> /\ UNCHANGED core
              ELSE /\ ~last'.raised
                   /\ IF mStreamInfoGotten
                      THEN /\ last'.ret = 0
                           /\ \A i \in DOMAIN calls' :
                                calls'[i].f # "avformat_find_stream_info"
                      ELSE /\ \E i \in DOMAIN calls' :
                                calls'[i] = [f |-> "avformat_find_stream_info",
                                             a |-> last'.ret]
                           /\ (mStreamInfoGotten' <=> last'.ret >= 0))]_vars

C16_Witness ==
  /\ last.op = "queryStreamMetaData" /\ last.pre = "OPENED" /\ ~last.raised
  /\ last.ret = 0 /\ mStreamInfoGotten /\ calls = <<>>
====
